---- MODULE Spec2Model ----
(***************************************************************************)
(* Gravity scene graph (gravity/inc/sg.h) and its type-erased Parameter    *)
(* (gravity/inc/parameter.h), instantiated as DefaultSceneGraph            *)
(* (Key = std::string, NodeType = std::uint32_t) with the ParameterFactory *)
(* of tests/gravity_tests.h.                                               *)
(*                                                                         *)
(* A Node* is an address.  `new Node` returns any address that is not      *)
(* allocated, so an address freed by DeleteNode may be handed out again.   *)
(* Every object that was ever constructed also carries an identity (its    *)
(* creation number), which the program itself never sees: it is history    *)
(* kept to state the properties.                                           *)
(*                                                                         *)
(* A triggering operation runs as several steps: the call (lookup, the     *)
(* state change made before the dispatch), one step per iteration of the   *)
(* Fire* loop, and the return (for DeleteNode: the erase).                  *)
(*                                                                         *)
(* Specifications:                                                         *)
(*   Spec           the graph with a single-threaded client (a call is     *)
(*                  issued only when no call is in progress) and the       *)
(*                  observers of the tests: a callback records what it is  *)
(*                  handed and what it reads from the node, and returns;   *)
(*                  it neither throws nor calls back into the graph;       *)
(*   SpecFreed      Spec, and Node methods called through deleted nodes;   *)
(*   SpecNode       ModifyValue and GetValue, in every build;              *)
(*   SpecReentrant  callbacks that call into the graph;                    *)
(*   SpecParam      Parameter objects used on their own, in every build;   *)
(*   SpecThreads    threads that create and delete nodes concurrently;     *)
(*   SpecRace       threads that set and get one parameter concurrently;   *)
(*   SpecOwned      several live nodes, their parameters held as pointers; *)
(*   SpecThrow      Spec, and callbacks that throw;                        *)
(*   SpecDestroy    nodes created and deleted, and the graph destroyed.    *)
(***************************************************************************)
EXTENDS Integers, Sequences, FiniteSets, TLC

\* ------------------------------------------------------------------ bounds
NumAddr == 1        \* addresses the allocator hands out
MaxCreates == 2     \* CreateNode calls in one run
MaxCallbacks == 2   \* callbacks registered in the three registries together
NumHolders == 3     \* addresses the allocator hands out for Holder<T> objects
MaxLen == 5         \* elements a std::vector<int> grows to
NumThreads == 2     \* threads of a multithreaded client
NodesPerThread == 1 \* nodes each thread creates, and then deletes

Addr == 1..NumAddr
\* a pointer value that no `new Node` returns
WildPtr == NumAddr + 1
\* node types and filters of the tests (gravity_tests.h:184,199,209)
NodeTypes == {0, 2}
Filters == {{}, {0, 1}}

\* ------------------------------------------------- parameter.h: Parameter
\* Values of every type are held as a sequence of integers: int 5 is <<5>>,
\* float 3.8f is <<38>> (tenths), std::vector<int>{1,2,3} is <<1,2,3>>;
\* T names the erased type.
nullptr == [T |-> "nullptr", m_value |-> <<>>]

Holder(T, val) == [T |-> T, m_value |-> val]

Clone(holder) == Holder(holder.T, holder.m_value)

GetTypeIndex(holder) == holder.T

\* Parameter(T&& val): type lock off
ParameterOf(T, val) == [m_placeholder |-> Holder(T, val), m_type_lock |-> FALSE]

\* Parameter(Parameter const&)
ParameterCopy(rhs) ==
    [m_placeholder |-> IF rhs.m_placeholder # nullptr
                       THEN Clone(rhs.m_placeholder) ELSE nullptr,
     m_type_lock |-> rhs.m_type_lock]

SetTypeLock(p, type_lock) == [p EXCEPT !.m_type_lock = type_lock]

\* operator=(T&& val), built with ENABLE_TYPE_LOCK: the outcome and the
\* parameter afterwards.  (Without ENABLE_TYPE_LOCK there is no lock: that
\* build behaves as this one with m_type_lock never set.)
AssignValue_NoSwap(p, T, val) ==
    IF p.m_type_lock /\ p.m_placeholder # nullptr
          /\ GetTypeIndex(p.m_placeholder) # T
    THEN [status |-> "bad_cast", p |-> p]
    ELSE [status |-> "ok", p |-> p]

AssignValue_LockRejectsAll(p, T, val) ==
    IF p.m_type_lock /\ p.m_placeholder # nullptr
    THEN [status |-> "bad_cast", p |-> p]
    ELSE [status |-> "ok", p |-> [p EXCEPT !.m_placeholder = Holder(T, val)]]

AssignValue(p, T, val) ==
    IF p.m_type_lock /\ p.m_placeholder # nullptr
          /\ GetTypeIndex(p.m_placeholder) # T
    THEN [status |-> "bad_cast", p |-> p]
    ELSE [status |-> "ok", p |-> [p EXCEPT !.m_placeholder = Holder(T, val)]]

\* As<T>(), built with ENABLE_TYPE_CHECK: std::bad_cast unless a T is held
As(p, T) ==
    IF p.m_placeholder = nullptr \/ GetTypeIndex(p.m_placeholder) # T
    THEN [status |-> "bad_cast", m_value |-> <<>>]
    ELSE [status |-> "ok", m_value |-> p.m_placeholder.m_value]

\* The macros a build defines.  GetTypeIndex is declared only with
\* ENABLE_TYPE_LOCK and As<T> calls it with ENABLE_TYPE_CHECK, so a build
\* with ENABLE_TYPE_CHECK alone does not compile.
Build(lock, check) == [ENABLE_TYPE_LOCK |-> lock, ENABLE_TYPE_CHECK |-> check]
Builds == {Build(FALSE, FALSE), Build(TRUE, FALSE), Build(TRUE, TRUE)}
FullBuild == Build(TRUE, TRUE)

\* a type as the client writes it: int, int const, int&&, int const&
TypeName(base, cv, ref) == [base |-> base, cv |-> cv, ref |-> ref]

Decay_KeepsConst(T) == IF T.cv = "const" THEN T.base \o " const" ELSE T.base

\* std::decay<T>::type: T without its reference and its cv-qualifier
Decay(T) == T.base

\* what a read through a pointer to no Holder<T> may find
Garbage == {<<0>>}

AsIn_Unchecked(b, p, T) ==
    IF p.m_placeholder # nullptr /\ p.m_placeholder.T = Decay(T)
    THEN [status |-> "ok", m_value |-> p.m_placeholder.m_value]
    ELSE [status |-> "undefined", m_value |-> <<>>]

\* As<T>() in a build: without ENABLE_TYPE_CHECK nothing is checked, and the
\* static_cast of a null pointer or of a Holder of another type is undefined
AsIn(b, p, T) ==
    IF b.ENABLE_TYPE_CHECK
    THEN As(p, Decay(T))
    ELSE IF p.m_placeholder # nullptr /\ p.m_placeholder.T = Decay(T)
         THEN [status |-> "ok", m_value |-> p.m_placeholder.m_value]
         ELSE [status |-> "undefined", m_value |-> <<>>]

\* operator=(Parameter const& rhs) in a build: the outcome and the parameter
\* afterwards
CopyAssign(b, p, rhs) ==
    IF /\ b.ENABLE_TYPE_LOCK
       /\ \/ /\ p.m_type_lock
             /\ p.m_placeholder # nullptr
             /\ rhs.m_placeholder # nullptr
             /\ GetTypeIndex(rhs.m_placeholder) # GetTypeIndex(p.m_placeholder)
          \/ (p.m_placeholder # nullptr /\ rhs.m_placeholder = nullptr)
    THEN [status |-> "bad_cast", p |-> p]
    ELSE [status |-> "ok",
          p |-> [p EXCEPT !.m_placeholder =
                    IF rhs.m_placeholder # nullptr
                    THEN Clone(rhs.m_placeholder) ELSE nullptr]]

\* Placeholder* values: the addresses of Holder objects, and the null pointer
HolderAddr == 1..NumHolders
NullHolder == 0
FreeHolder == [alloc |-> FALSE, T |-> "nullptr", m_value |-> <<>>]

\* new Holder<T>(val) at address a; delete of a pointer (of nullptr: nothing)
New(hs, a, holder) ==
    [hs EXCEPT ![a] = [alloc |-> TRUE, T |-> holder.T, m_value |-> holder.m_value]]
Delete(hs, a) == IF a = NullHolder THEN hs ELSE [hs EXCEPT ![a] = FreeHolder]

\* a Parameter object whose m_placeholder is a pointer, read as the value it
\* holds
PointerTo(a, type_lock) == [m_placeholder |-> a, m_type_lock |-> type_lock]
Deref(hs, p) ==
    [m_placeholder |-> IF p.m_placeholder = NullHolder THEN nullptr
                       ELSE Holder(hs[p.m_placeholder].T,
                                   hs[p.m_placeholder].m_value),
     m_type_lock |-> p.m_type_lock]

\* --------------------------------------- gravity_tests.h: ParameterFactory
Keys == {"type", "float_value", "vector_value"}

TestParameterSet ==
    [k \in Keys |->
        CASE k = "type" -> ParameterOf("int", <<5>>)
          [] k = "float_value" -> ParameterOf("float", <<38>>)
          [] k = "vector_value" -> ParameterOf("vector<int>", <<1, 2, 3>>)]

\* GetParameterSet(type) of the factory the graph was constructed with:
\* the tests' factory, the same factory locking every parameter's type, or
\* the same factory leaving "float_value" default-constructed
GetParameterSet(factory, type) ==
    CASE factory = "ParameterFactory" -> TestParameterSet
      [] factory = "TypeLockingFactory" ->
            [k \in Keys |-> SetTypeLock(TestParameterSet[k], TRUE)]
      [] factory = "SparseFactory" ->
            [TestParameterSet EXCEPT
                !["float_value"] = [m_placeholder |-> nullptr, m_type_lock |-> FALSE]]

\* what the factory has seen of the graph: how many GetParameterSet calls it
\* received, and the type the latest was made with
NoCalls == [n |-> 0, type |-> 0]

Provide_Twice(calls, type) == [n |-> calls.n + 2, type |-> type]

\* m_param_factory->GetParameterSet(type), as the factory receives it
Provide(calls, type) == [n |-> calls.n + 1, type |-> type]

Factories == {"ParameterFactory", "TypeLockingFactory"}

\* what the client passes to SetValue (gravity_tests.h:225,231) and a key
\* that no parameter set holds
SetKeys == {"type", "no_such_key"}
SetValues == {Holder("int", <<10>>), Holder("vector<int>", <<4, 5, 6>>)}

\* ---------------------------------------------------------- sg.h: errors
\* std::runtime_error("There is no such node to delete")
NodeNotFoundError == "runtime_error: There is no such node to delete"
\* std::runtime_error("Requested parameter not found")
KeyNotFoundError == "runtime_error: Requested parameter not found"
\* std::bad_cast thrown by Parameter::operator=
TypeLockViolation == "bad_cast"

VARIABLES
    m_param_factory,  \* the factory the graph owns
    heap,             \* memory: what each address holds
    m_nodes,          \* std::set<std::unique_ptr<Node>>, in pointer order
    m_cb_create,      \* std::list<FilteredCallback<OnNodeCreateCallback>>
    m_cb_delete,      \* std::list<FilteredCallback<OnNodeDeleteCallback>>
    m_cb_change,      \* std::list<FilteredCallback<OnNodeParameterChangeCallback>>
    frame,            \* the call in progress and the position of its Fire* loop
    log,              \* what the callbacks invoked by the call in progress saw, in order
    ret,              \* the outcome of the latest call, when it ended without a dispatch
    returned,         \* history: returned[h] = the Node* the h-th CreateNode returned
    argType,          \* history: the type each node not yet destroyed was created with
    deleted,          \* history: the nodes (creation numbers) DeleteNode destroyed
    provided,         \* history: the GetParameterSet calls the factory received
    build,            \* the macros the program is compiled with
    holders,          \* memory: what each Placeholder* points to
    params,           \* the Parameter objects of a program that uses parameter.h alone
    thread,           \* each thread of a multithreaded client: its position and locals
    shared_nodes      \* `nodes`, the std::vector<Node*> the threads of the test share

graph == <<m_param_factory, heap, m_nodes, m_cb_create, m_cb_delete, m_cb_change>>
history == <<returned, argType, deleted, provided>>
\* what a single-threaded client of the graph leaves alone
others == <<build, holders, params, thread, shared_nodes>>
vars == <<graph, frame, log, ret, history, others>>

\* ------------------------------------------------------------ sg.h: Node
\* freed or never allocated memory
FreeMem == [alloc |-> FALSE, id |-> 0, m_type |-> 0, m_paramset |-> <<>>]

Node_ParamsetNotMoved(type, param_set, id) ==
    [alloc |-> TRUE, id |-> id, m_type |-> type, m_paramset |-> <<>>]

Node_TypeNotStored(type, param_set, id) ==
    [alloc |-> TRUE, id |-> id, m_type |-> 0, m_paramset |-> param_set]

\* Node(sg, type, param_set): the param_set is moved in; id is the creation
\* number of the object (history)
Node(type, param_set, id) ==
    [alloc |-> TRUE, id |-> id, m_type |-> type, m_paramset |-> param_set]

NodeGetType(node) == node.m_type

NodeSetValue_InsertsKey(node, key, T, val) ==
    IF key \notin DOMAIN node.m_paramset
    THEN [status |-> KeyNotFoundError,
          node |-> [node EXCEPT !.m_paramset =
                       (key :> ParameterOf(T, val)) @@ node.m_paramset]]
    ELSE LET a == AssignValue(node.m_paramset[key], T, val)
         IN  [status |-> IF a.status = "ok" THEN "ok" ELSE TypeLockViolation,
              node |-> [node EXCEPT !.m_paramset[key] = a.p]]

\* Node::SetValue up to the notification: the outcome and the node afterwards
NodeSetValue(node, key, T, val) ==
    IF key \notin DOMAIN node.m_paramset
    THEN [status |-> KeyNotFoundError, node |-> node]
    ELSE LET a == AssignValue(node.m_paramset[key], T, val)
         IN  [status |-> IF a.status = "ok" THEN "ok" ELSE TypeLockViolation,
              node |-> [node EXCEPT !.m_paramset[key] = a.p]]

\* Node::GetValue<T>(key)
NodeGetValue(node, key, T) ==
    IF key \notin DOMAIN node.m_paramset
    THEN [status |-> KeyNotFoundError, m_value |-> <<>>]
    ELSE As(node.m_paramset[key], T)

\* ------------------------------------------------ sg.h: FilteredCallback
FilteredCallback(func, filter) == [m_func |-> func, m_filter |-> filter]

FilteredCallbackCall_EmptyMatchesNone(cb, type) == type \in cb.m_filter

\* operator()(Node*): whether m_func is called for a node of this type
FilteredCallbackCall(cb, type) ==
    IF cb.m_filter = {} THEN TRUE ELSE type \in cb.m_filter

\* operator()(Node*, Args&&...): whether m_func is called
FilteredCallbackCallArgs(cb, type) ==
    IF cb.m_filter = {} THEN TRUE ELSE type \in cb.m_filter

\* ------------------------------------------------------ sg.h: SceneGraph
\* std::set::emplace: kept in pointer order, no equal element twice
RECURSIVE InsertSorted(_, _)
InsertSorted(s, a) ==
    IF s = <<>> THEN <<a>>
    ELSE IF a = Head(s) THEN s
    ELSE IF a < Head(s) THEN <<a>> \o s
    ELSE <<Head(s)>> \o InsertSorted(Tail(s), a)

Emplace(nodes, a) == InsertSorted(nodes, a)

\* std::find_if over m_nodes: the position of the node, 0 for cend()
FindIf(nodes, node) ==
    IF \E i \in 1..Len(nodes) : nodes[i] = node
    THEN CHOOSE i \in 1..Len(nodes) :
             nodes[i] = node /\ \A j \in 1..(i - 1) : nodes[j] # node
    ELSE 0

Erase_Nothing(nodes, iter) == nodes

\* m_nodes.erase(iter)
Erase(nodes, iter) ==
    [j \in 1..(Len(nodes) - 1) |-> IF j < iter THEN nodes[j] ELSE nodes[j + 1]]

EmplaceBack_Front(list, filter) ==
    <<FilteredCallback(Len(list) + 1, filter)>> \o list

\* emplace_back(cb, filter); the callback is named by its rank among the
\* registrations of its registry
EmplaceBack(list, filter) ==
    Append(list, FilteredCallback(Len(list) + 1, filter))

\* a call in progress: op(h...) on the node at address `node`, about to run
\* the i-th callback of its registry
Frame(op, h, node, key, val, i) ==
    [op |-> op, h |-> h, node |-> node, key |-> key, val |-> val, i |-> i]

Idle == Frame("idle", 0, 0, "", nullptr, 0)

\* the outcome of a call that ended at once
Outcome(op, h, key, what, type) ==
    [op |-> op, h |-> h, key |-> key, what |-> what, type |-> type]

NoOutcome == Outcome("none", 0, "", "ok", 0)

\* the handles the client holds: h stands for the pointer the h-th
\* CreateNode returned, 0 for a pointer that no CreateNode returned
Handles == 1..Len(returned)
AddrOf(h) == IF h \in Handles THEN returned[h] ELSE WildPtr

\* the creation number of the next node: one more than the nodes constructed
\* so far, each from one GetParameterSet call
NextId == provided.n + 1

\* reading m_type through a pointer: of freed memory it yields anything
ReadType(node) ==
    IF heap[node].alloc THEN {NodeGetType(heap[node])} ELSE NodeTypes

\* the body of an observer: it records what it was called with and what it
\* reads from the node it was handed
Observe(func, node, key, type) ==
    [m_func |-> func, node |-> node, key |-> key,
     in_nodes |-> FindIf(m_nodes, node) # 0,
     type |-> type,
     m_paramset |-> heap[node].m_paramset]

Registered == Len(m_cb_create) + Len(m_cb_delete) + Len(m_cb_change)

\* a program with no Parameter object outside the graph's nodes and no
\* thread but the main one
NoOthers ==
    /\ holders = [a \in HolderAddr |-> FreeHolder]
    /\ params = <<>>
    /\ thread = <<>>
    /\ shared_nodes = <<>>

Init ==
    /\ m_param_factory \in Factories
    /\ heap = [a \in Addr |-> FreeMem]
    /\ m_nodes = <<>>
    /\ m_cb_create = <<>>
    /\ m_cb_delete = <<>>
    /\ m_cb_change = <<>>
    /\ frame = Idle
    /\ log = <<>>
    /\ ret = NoOutcome
    /\ returned = <<>>
    /\ argType = <<>>
    /\ deleted = {}
    /\ provided = NoCalls
    /\ build = FullBuild
    /\ NoOthers

RegisterOnNodeCreateCallback ==
    /\ frame = Idle
    /\ Registered < MaxCallbacks
    /\ \E filter \in Filters : m_cb_create' = EmplaceBack(m_cb_create, filter)
    /\ ret' = NoOutcome
    /\ UNCHANGED <<m_param_factory, heap, m_nodes, m_cb_delete, m_cb_change,
                   frame, log, history,
                   others>>

RegisterOnNodeDeleteCallback ==
    /\ frame = Idle
    /\ Registered < MaxCallbacks
    /\ \E filter \in Filters : m_cb_delete' = EmplaceBack(m_cb_delete, filter)
    /\ ret' = NoOutcome
    /\ UNCHANGED <<m_param_factory, heap, m_nodes, m_cb_create, m_cb_change,
                   frame, log, history,
                   others>>

RegisterOnNodeParameterChangeCallback ==
    /\ frame = Idle
    /\ Registered < MaxCallbacks
    /\ \E filter \in Filters : m_cb_change' = EmplaceBack(m_cb_change, filter)
    /\ ret' = NoOutcome
    /\ UNCHANGED <<m_param_factory, heap, m_nodes, m_cb_create, m_cb_delete,
                   frame, log, history,
                   others>>

\* CreateNode(type) up to the notification: new Node, m_nodes.emplace
CreateNode ==
    /\ frame = Idle
    /\ NextId <= MaxCreates
    /\ \E type \in NodeTypes, node \in Addr :
          /\ ~heap[node].alloc
          /\ heap' = [heap EXCEPT ![node] =
                         Node(type, GetParameterSet(m_param_factory, type), NextId)]
          /\ m_nodes' = Emplace(m_nodes, node)
          /\ provided' = Provide(provided, type)
          /\ argType' = (NextId :> type) @@ argType
          /\ frame' = Frame("CreateNode", NextId, node, "", nullptr, 1)
    /\ ret' = NoOutcome
    /\ UNCHANGED <<m_param_factory, m_cb_create, m_cb_delete, m_cb_change, log,
                   returned, deleted,
                   others>>

\* one iteration of FireOnNodeCreate: cb(node)
FireOnNodeCreate ==
    /\ frame.op = "CreateNode"
    /\ frame.i <= Len(m_cb_create)
    /\ \E type \in ReadType(frame.node) :
          LET cb == m_cb_create[frame.i]
          IN  log' = IF FilteredCallbackCall(cb, type)
                     THEN Append(log, Observe(cb.m_func, frame.node, "", type))
                     ELSE log
    /\ frame' = [frame EXCEPT !.i = frame.i + 1]
    /\ UNCHANGED <<graph, ret, history,
                   others>>

\* CreateNode: return node
CreateNodeReturn ==
    /\ frame.op = "CreateNode"
    /\ frame.i > Len(m_cb_create)
    /\ returned' = Append(returned, frame.node)
    /\ frame' = Idle
    /\ log' = <<>>
    /\ UNCHANGED <<graph, ret, argType, deleted, provided,
                   others>>

DeleteNode_EraseFirst ==
    /\ frame = Idle
    /\ \E h \in Handles \cup {0} :
          IF FindIf(m_nodes, AddrOf(h)) = 0
          THEN /\ ret' = Outcome("DeleteNode", h, "", NodeNotFoundError, 0)
               /\ frame' = frame
               /\ UNCHANGED <<m_nodes, heap>>
          ELSE /\ ret' = NoOutcome
               /\ frame' = Frame("DeleteNode", h, AddrOf(h), "", nullptr, 1)
               /\ m_nodes' = Erase(m_nodes, FindIf(m_nodes, AddrOf(h)))
               /\ heap' = [heap EXCEPT ![AddrOf(h)] = FreeMem]
    /\ UNCHANGED <<m_param_factory, m_cb_create, m_cb_delete, m_cb_change, log,
                   history,
                   others>>

DeleteNode_NotFoundNotifies ==
    /\ frame = Idle
    /\ \E h \in Handles \cup {0} :
          IF FindIf(m_nodes, AddrOf(h)) = 0 /\ h = 0
          THEN /\ ret' = Outcome("DeleteNode", h, "", NodeNotFoundError, 0)
               /\ frame' = frame
          ELSE /\ ret' = IF FindIf(m_nodes, AddrOf(h)) = 0
                         THEN Outcome("DeleteNode", h, "", NodeNotFoundError, 0)
                         ELSE NoOutcome
               /\ frame' = Frame("DeleteNode", h, AddrOf(h), "", nullptr, 1)
    /\ UNCHANGED <<graph, log, history,
                   others>>

\* DeleteNode(node) up to the notification: find_if, throw if not found
DeleteNode ==
    /\ frame = Idle
    /\ \E h \in Handles \cup {0} :
          IF FindIf(m_nodes, AddrOf(h)) = 0
          THEN /\ ret' = Outcome("DeleteNode", h, "", NodeNotFoundError, 0)
               /\ frame' = frame
          ELSE /\ ret' = NoOutcome
               /\ frame' = Frame("DeleteNode", h, AddrOf(h), "", nullptr, 1)
    /\ UNCHANGED <<graph, log, history,
                   others>>

\* one iteration of FireOnNodeDelete: cb(node)
FireOnNodeDelete ==
    /\ frame.op = "DeleteNode"
    /\ frame.i <= Len(m_cb_delete)
    /\ \E type \in ReadType(frame.node) :
          LET cb == m_cb_delete[frame.i]
          IN  log' = IF FilteredCallbackCall(cb, type)
                     THEN Append(log, Observe(cb.m_func, frame.node, "", type))
                     ELSE log
    /\ frame' = [frame EXCEPT !.i = frame.i + 1]
    /\ UNCHANGED <<graph, ret, history,
                   others>>

\* DeleteNode: m_nodes.erase(iter); the unique_ptr destroys and frees the node
DeleteNodeErase ==
    /\ frame.op = "DeleteNode"
    /\ frame.i > Len(m_cb_delete)
    /\ m_nodes' = Erase(m_nodes, FindIf(m_nodes, frame.node))
    /\ heap' = [heap EXCEPT ![frame.node] = FreeMem]
    /\ deleted' = deleted \cup {heap[frame.node].id}
    /\ argType' = [id \in DOMAIN argType \ {heap[frame.node].id} |-> argType[id]]
    /\ frame' = Idle
    /\ log' = <<>>
    /\ UNCHANGED <<m_param_factory, m_cb_create, m_cb_delete, m_cb_change, ret,
                   returned, provided,
                   others>>

\* node->SetValue(key, value) up to the notification, through a pointer to
\* allocated memory
SetValue ==
    /\ frame = Idle
    /\ \E h \in Handles, key \in SetKeys, v \in SetValues :
          LET node == AddrOf(h)
              r == NodeSetValue(heap[node], key, v.T, v.m_value)
          IN  /\ heap[node].alloc
              /\ heap' = [heap EXCEPT ![node] = r.node]
              /\ IF r.status = "ok"
                 THEN /\ frame' = Frame("SetValue", h, node, key, v, 1)
                      /\ ret' = NoOutcome
                 ELSE /\ frame' = frame
                      /\ ret' = Outcome("SetValue", h, key, r.status, 0)
    /\ UNCHANGED <<m_param_factory, m_nodes, m_cb_create, m_cb_delete,
                   m_cb_change, log, history,
                   others>>

\* one iteration of FireOnNodeParameterChange: cb(node, key)
FireOnNodeParameterChange ==
    /\ frame.op \in {"SetValue", "ModifyValue"}
    /\ frame.i <= Len(m_cb_change)
    /\ \E type \in ReadType(frame.node) :
          LET cb == m_cb_change[frame.i]
          IN  log' = IF FilteredCallbackCallArgs(cb, type)
                     THEN Append(log, Observe(cb.m_func, frame.node, frame.key, type))
                     ELSE log
    /\ frame' = [frame EXCEPT !.i = frame.i + 1]
    /\ UNCHANGED <<graph, ret, history,
                   others>>

\* SetValue: return
SetValueReturn ==
    /\ frame.op = "SetValue"
    /\ frame.i > Len(m_cb_change)
    /\ frame' = Idle
    /\ log' = <<>>
    /\ UNCHANGED <<graph, ret, history,
                   others>>

Next ==
    \/ RegisterOnNodeCreateCallback
    \/ RegisterOnNodeDeleteCallback
    \/ RegisterOnNodeParameterChangeCallback
    \/ CreateNode
    \/ FireOnNodeCreate
    \/ CreateNodeReturn
    \/ DeleteNode
    \/ FireOnNodeDelete
    \/ DeleteNodeErase
    \/ SetValue
    \/ FireOnNodeParameterChange
    \/ SetValueReturn

Spec == Init /\ [][Next]_vars

\* ------------------------------------------------- use of a freed Node*
\* What a build does with a Node method called through a pointer to freed
\* memory is undefined: the call may end the process, or run on over whatever
\* the memory holds.
Crashed(h, node) == Frame("crashed", h, node, "", nullptr, 0)

\* node->GetType() through any pointer CreateNode returned
GetType ==
    /\ frame = Idle
    /\ \E h \in Handles :
          \/ /\ \E type \in ReadType(AddrOf(h)) :
                   ret' = Outcome("GetType", h, "", "ok", type)
             /\ frame' = frame
          \/ /\ ~heap[AddrOf(h)].alloc
             /\ ret' = NoOutcome
             /\ frame' = Crashed(h, AddrOf(h))
    /\ UNCHANGED <<graph, log, history,
                   others>>

\* node->SetValue(key, value) through a pointer to freed memory: find() walks
\* the destroyed std::map
SetValueFreed ==
    /\ frame = Idle
    /\ \E h \in Handles, key \in SetKeys, v \in SetValues :
          /\ ~heap[AddrOf(h)].alloc
          /\ \/ /\ ret' = NoOutcome
                /\ frame' = Crashed(h, AddrOf(h))
             \/ /\ ret' = Outcome("SetValue", h, key, KeyNotFoundError, 0)
                /\ frame' = frame
             \/ /\ ret' = NoOutcome
                /\ frame' = Frame("SetValue", h, AddrOf(h), key, v, 1)
    /\ UNCHANGED <<graph, log, history,
                   others>>

NextFreed ==
    \/ Next
    \/ GetType
    \/ SetValueFreed

\* the graph with a client that also calls Node methods through pointers to
\* deleted nodes
SpecFreed == Init /\ [][NextFreed]_vars

\* ------------------------------------- Node::ModifyValue and GetValue
\* The graph with a client that creates nodes, registers change callbacks,
\* and modifies and reads parameters, in any of the builds and with a factory
\* that may leave a parameter empty.
NodeFactories == {"ParameterFactory", "SparseFactory"}
ModifyKeys == {"vector_value", "float_value", "no_such_key"}
\* the functor of gravity_tests.h:109-113
Mutators == {"val.push_back(4); val.push_back(5);"}
\* the T of ModifyValue<T> (gravity_tests.h:108) and of GetValue<T>
\* (gravity_tests.h:226,233)
MutatorType(func) == TypeName("vector<int>", "", "")
GetTypes == {TypeName("int", "", ""), TypeName("vector<int>", "", "")}

\* func(val)
Apply(func, val) == val \o <<4, 5>>

\* the outcome of a ModifyValue<T> or GetValue<T> that ended at once
OutcomeOf(op, h, key, T, what) ==
    [op |-> op, h |-> h, key |-> key, what |-> what, type |-> 0, T |-> T]

NodeModifyValue_OnCopy(b, node, key, T, func) ==
    IF key \notin DOMAIN node.m_paramset
    THEN [status |-> KeyNotFoundError, node |-> node, calls |-> 0]
    ELSE LET r == AsIn(b, node.m_paramset[key], T)
         IN  [status |-> r.status, node |-> node,
              calls |-> IF r.status = "ok" THEN 1 ELSE 0]

\* Node::ModifyValue<T>(key, func) up to the notification, where As<T> is
\* defined: the outcome, the node afterwards and how often func was called
NodeModifyValue(b, node, key, T, func) ==
    IF key \notin DOMAIN node.m_paramset
    THEN [status |-> KeyNotFoundError, node |-> node, calls |-> 0]
    ELSE LET r == AsIn(b, node.m_paramset[key], T)
         IN  IF r.status = "ok"
             THEN [status |-> "ok",
                   node |-> [node EXCEPT !.m_paramset[key].m_placeholder.m_value =
                                Apply(func, r.m_value)],
                   calls |-> 1]
             ELSE [status |-> r.status, node |-> node, calls |-> 0]

\* Node::GetValue<T>(key) in a build
NodeGetValueIn(b, node, key, T) ==
    IF key \notin DOMAIN node.m_paramset
    THEN [status |-> KeyNotFoundError, m_value |-> <<>>]
    ELSE AsIn(b, node.m_paramset[key], T)

InitNode ==
    /\ m_param_factory \in NodeFactories
    /\ heap = [a \in Addr |-> FreeMem]
    /\ m_nodes = <<>>
    /\ m_cb_create = <<>>
    /\ m_cb_delete = <<>>
    /\ m_cb_change = <<>>
    /\ frame = Idle
    /\ log = <<>>
    /\ ret = NoOutcome
    /\ returned = <<>>
    /\ argType = <<>>
    /\ deleted = {}
    /\ provided = NoCalls
    /\ build \in Builds
    /\ NoOthers

\* node->ModifyValue<T>(key, func) up to the notification
ModifyValue ==
    /\ frame = Idle
    /\ \E h \in Handles, key \in ModifyKeys, func \in Mutators :
          LET node == AddrOf(h)
              r == NodeModifyValue(build, heap[node], key, MutatorType(func), func)
              called == <<Observe(0, node, key, heap[node].m_type)>>
          IN  /\ heap[node].alloc
              /\ \/ /\ r.status = "ok"
                    /\ Len(r.node.m_paramset[key].m_placeholder.m_value) <= MaxLen
                    /\ heap' = [heap EXCEPT ![node] = r.node]
                    /\ log' = called
                    /\ frame' = Frame("ModifyValue", h, node, key,
                                      r.node.m_paramset[key].m_placeholder, 1)
                    /\ ret' = NoOutcome
                 \/ /\ r.status \in {KeyNotFoundError, "bad_cast"}
                    /\ heap' = [heap EXCEPT ![node] = r.node]
                    /\ ret' = OutcomeOf("ModifyValue", h, key, MutatorType(func),
                                        r.status)
                    /\ UNCHANGED <<frame, log>>
                 \/ /\ r.status = "undefined"
                    /\ ret' = NoOutcome
                    /\ frame' = Crashed(h, node)
                    /\ UNCHANGED <<heap, log>>
                 \/ /\ r.status = "undefined"
                    /\ \E g \in Garbage :
                          heap' = IF heap[node].m_paramset[key].m_placeholder = nullptr
                                  THEN heap
                                  ELSE [heap EXCEPT ![node].m_paramset[key]
                                                       .m_placeholder.m_value = g]
                    /\ log' = called
                    /\ frame' = Frame("ModifyValue", h, node, key, nullptr, 1)
                    /\ ret' = NoOutcome
    /\ UNCHANGED <<m_param_factory, m_nodes, m_cb_create, m_cb_delete,
                   m_cb_change, history, others>>

\* ModifyValue: return
ModifyValueReturn ==
    /\ frame.op = "ModifyValue"
    /\ frame.i > Len(m_cb_change)
    /\ frame' = Idle
    /\ log' = <<>>
    /\ UNCHANGED <<graph, ret, history, others>>

\* node->GetValue<T>(key)
GetValue ==
    /\ frame = Idle
    /\ \E h \in Handles, key \in ModifyKeys, T \in GetTypes :
          LET node == AddrOf(h)
              r == NodeGetValueIn(build, heap[node], key, T)
          IN  /\ heap[node].alloc
              /\ \/ /\ r.status # "undefined"
                    /\ ret' = OutcomeOf("GetValue", h, key, T, r.status)
                    /\ frame' = frame
                 \/ /\ r.status = "undefined"
                    /\ ret' = OutcomeOf("GetValue", h, key, T, "ok")
                    /\ frame' = frame
                 \/ /\ r.status = "undefined"
                    /\ ret' = NoOutcome
                    /\ frame' = Crashed(h, node)
    /\ UNCHANGED <<graph, log, history, others>>

NextNode ==
    \/ RegisterOnNodeParameterChangeCallback
    \/ CreateNode
    \/ CreateNodeReturn
    \/ ModifyValue
    \/ GetValue
    \/ FireOnNodeParameterChange
    \/ ModifyValueReturn

SpecNode == InitNode /\ [][NextNode]_vars

\* ------------------------------------ callbacks that call into the graph
\* A callback runs inside the Fire* loop that invoked it, and a call it makes
\* on the graph runs at once, inside that loop: the code has no queue.  The
\* callbacks here are create and delete callbacks; once invoked, a callback
\* may register a callback, and a create callback may delete the node it was
\* handed.  (The nested DeleteNode is taken when no delete callback is
\* registered, so that it is one step.)
InCallback ==
    /\ frame.op \in {"CreateNode", "DeleteNode"}
    /\ frame.i > 1
    /\ Len(log) >= 1

\* m_sg->RegisterOnNode{Create,Delete}Callback(cb, filter) in a callback
CallbackRegisters ==
    /\ InCallback
    /\ Registered < MaxCallbacks
    /\ \E filter \in Filters :
          \/ /\ m_cb_create' = EmplaceBack(m_cb_create, filter)
             /\ m_cb_delete' = m_cb_delete
          \/ /\ m_cb_delete' = EmplaceBack(m_cb_delete, filter)
             /\ m_cb_create' = m_cb_create
    /\ UNCHANGED <<m_param_factory, heap, m_nodes, m_cb_change, frame, log, ret,
                   history, others>>

\* m_sg->DeleteNode(node) in a create callback, on the node it was handed:
\* find_if, FireOnNodeDelete over an empty registry, erase
CallbackDeletesNode ==
    /\ InCallback
    /\ frame.op = "CreateNode"
    /\ Len(m_cb_delete) = 0
    /\ FindIf(m_nodes, frame.node) # 0
    /\ m_nodes' = Erase(m_nodes, FindIf(m_nodes, frame.node))
    /\ heap' = [heap EXCEPT ![frame.node] = FreeMem]
    /\ deleted' = deleted \cup {heap[frame.node].id}
    /\ argType' = [id \in DOMAIN argType \ {heap[frame.node].id} |-> argType[id]]
    /\ UNCHANGED <<m_param_factory, m_cb_create, m_cb_delete, m_cb_change, frame,
                   log, ret, returned, provided, others>>

NextReentrant ==
    \/ RegisterOnNodeCreateCallback
    \/ RegisterOnNodeDeleteCallback
    \/ CreateNode
    \/ FireOnNodeCreate
    \/ CreateNodeReturn
    \/ DeleteNode
    \/ FireOnNodeDelete
    \/ DeleteNodeErase
    \/ CallbackRegisters
    \/ CallbackDeletesNode

SpecReentrant == Init /\ [][NextReentrant]_vars

\* ----------------------------- gravity_tests.h: Multithreaded_Consistency
\* NumThreads threads create NodesPerThread nodes each, are joined, and then
\* delete the nodes, each thread picking its nodes from the shared vector
\* under the test's mutex.  The graph takes no lock: m_nodes.emplace, find_if
\* and m_nodes.erase of different threads are unordered accesses to one
\* std::set (a data race).  An access is a read of the set followed by a
\* write; when another thread has written in between, the write may act on
\* the set as it is, write back the set it read with its own change alone, or
\* end the process.  No callback is registered, as in the test.
Threads == 1..NumThreads
ThreadAddr == 1..(NumThreads * NodesPerThread)

\* a thread: its position, the Node* it works on, the set it read and the
\* number of loop iterations it has done
Thread(pc, node, snap, j) == [pc |-> pc, node |-> node, snap |-> snap, j |-> j]

Running == \A t \in Threads : thread[t].pc \notin {"crashed", "threw"}

ThreadNextId == Cardinality(DOMAIN argType) + Cardinality(deleted) + 1

notThreads == <<m_param_factory, m_cb_create, m_cb_delete, m_cb_change, frame,
                log, ret, returned, build, holders, params>>

InitThreads ==
    /\ m_param_factory = "ParameterFactory"
    /\ heap = [a \in ThreadAddr |-> FreeMem]
    /\ m_nodes = <<>>
    /\ m_cb_create = <<>>
    /\ m_cb_delete = <<>>
    /\ m_cb_change = <<>>
    /\ frame = Idle
    /\ log = <<>>
    /\ ret = NoOutcome
    /\ returned = <<>>
    /\ argType = <<>>
    /\ deleted = {}
    /\ provided = NoCalls
    /\ build = FullBuild
    /\ holders = [a \in HolderAddr |-> FreeHolder]
    /\ params = <<>>
    /\ thread = [t \in Threads |-> Thread("CreateNode", 0, <<>>, 0)]
    /\ shared_nodes = <<>>

\* CreateNode(0): new Node(*this, type, GetParameterSet(type)), and the read
\* of m_nodes.emplace(node)
ThreadNewNode ==
    /\ Running
    /\ \E t \in Threads, node \in ThreadAddr :
          /\ thread[t].pc = "CreateNode"
          /\ ~heap[node].alloc
          /\ heap' = [heap EXCEPT ![node] =
                         Node(0, GetParameterSet(m_param_factory, 0), ThreadNextId)]
          /\ provided' = Provide(provided, 0)
          /\ argType' = (ThreadNextId :> 0) @@ argType
          /\ thread' = [thread EXCEPT ![t] = Thread("emplace", node, m_nodes, @.j)]
    /\ UNCHANGED <<notThreads, m_nodes, deleted, shared_nodes>>

\* m_nodes.emplace(node): the write; FireOnNodeCreate finds no callback
ThreadEmplace ==
    /\ Running
    /\ \E t \in Threads :
          /\ thread[t].pc = "emplace"
          /\ \/ /\ m_nodes' = Emplace(m_nodes, thread[t].node)
                /\ thread' = [thread EXCEPT ![t].pc = "push_back"]
             \/ /\ m_nodes # thread[t].snap
                /\ m_nodes' = Emplace(thread[t].snap, thread[t].node)
                /\ thread' = [thread EXCEPT ![t].pc = "push_back"]
             \/ /\ m_nodes # thread[t].snap
                /\ m_nodes' = m_nodes
                /\ thread' = [thread EXCEPT ![t].pc = "crashed"]
    /\ UNCHANGED <<notThreads, heap, argType, deleted, provided, shared_nodes>>

\* return node; lock(nodes_mutex); nodes.push_back(node); next iteration
ThreadPushBack ==
    /\ Running
    /\ \E t \in Threads :
          /\ thread[t].pc = "push_back"
          /\ shared_nodes' = Append(shared_nodes, thread[t].node)
          /\ thread' = [thread EXCEPT ![t] =
                           Thread(IF @.j + 1 < NodesPerThread
                                  THEN "CreateNode" ELSE "joined",
                                  0, <<>>, @.j + 1)]
    /\ UNCHANGED <<notThreads, heap, m_nodes, argType, deleted, provided>>

\* every thread is joined; the deleting threads are started
ThreadsJoin ==
    /\ \A t \in Threads : thread[t].pc = "joined"
    /\ thread' = [t \in Threads |-> Thread("pick", 0, <<>>, 0)]
    /\ UNCHANGED <<notThreads, heap, m_nodes, argType, deleted, provided, shared_nodes>>

\* lock(nodes_mutex); node = nodes[idx]; nodes.erase(nodes.cbegin() + idx)
ThreadPick ==
    /\ Running
    /\ \E t \in Threads, idx \in 1..Len(shared_nodes) :
          /\ thread[t].pc = "pick"
          /\ shared_nodes' = Erase(shared_nodes, idx)
          /\ thread' = [thread EXCEPT ![t] =
                           Thread("find_if", shared_nodes[idx], <<>>, @.j)]
    /\ UNCHANGED <<notThreads, heap, m_nodes, argType, deleted, provided>>

\* DeleteNode(node): find_if, throw if not found; FireOnNodeDelete finds no
\* callback
ThreadFindIf ==
    /\ Running
    /\ \E t \in Threads :
          /\ thread[t].pc = "find_if"
          /\ thread' = [thread EXCEPT ![t] =
                           IF FindIf(m_nodes, @.node) = 0
                           THEN Thread("threw", @.node, <<>>, @.j)
                           ELSE Thread("erase", @.node, m_nodes, @.j)]
    /\ UNCHANGED <<notThreads, heap, m_nodes, argType, deleted, provided, shared_nodes>>

\* what the write of one access leaves of the set: nodes without node
Without(nodes, node) ==
    IF FindIf(nodes, node) = 0 THEN nodes ELSE Erase(nodes, FindIf(nodes, node))

\* m_nodes.erase(iter): the write, and the unique_ptr frees the node
ThreadErase ==
    /\ Running
    /\ \E t \in Threads :
          /\ thread[t].pc = "erase"
          /\ \/ /\ m_nodes' = Without(m_nodes, thread[t].node)
                /\ thread' = [thread EXCEPT ![t] =
                                 Thread(IF @.j + 1 < NodesPerThread
                                        THEN "pick" ELSE "done", 0, <<>>, @.j + 1)]
             \/ /\ m_nodes # thread[t].snap
                /\ m_nodes' = Without(thread[t].snap, thread[t].node)
                /\ thread' = [thread EXCEPT ![t] =
                                 Thread(IF @.j + 1 < NodesPerThread
                                        THEN "pick" ELSE "done", 0, <<>>, @.j + 1)]
             \/ /\ m_nodes # thread[t].snap
                /\ m_nodes' = m_nodes
                /\ thread' = [thread EXCEPT ![t].pc = "crashed"]
          /\ IF thread'[t].pc = "crashed"
             THEN UNCHANGED <<heap, argType, deleted>>
             ELSE /\ heap' = [heap EXCEPT ![thread[t].node] = FreeMem]
                  /\ deleted' = deleted \cup {heap[thread[t].node].id}
                  /\ argType' = [id \in DOMAIN argType \ {heap[thread[t].node].id}
                                    |-> argType[id]]
    /\ UNCHANGED <<notThreads, provided, shared_nodes>>

NextThreads ==
    \/ ThreadNewNode
    \/ ThreadEmplace
    \/ ThreadPushBack
    \/ ThreadsJoin
    \/ ThreadPick
    \/ ThreadFindIf
    \/ ThreadErase

SpecThreads == InitThreads /\ [][NextThreads]_vars

\* ------------------------- threads that set and get one node's parameter
\* The second phase of Multithreaded_Consistency: the threads call
\* SetValue("type", value) on the same node (gravity_tests.h:286-289); here a
\* thread may also call GetValue<int>("type").  The node's parameter "type"
\* is the Parameter object params["type"]; m_paramset.find only reads the
\* map.  Parameter::operator= takes no lock: new Holder, the read and the
\* write of std::swap(m_placeholder, holder), and delete holder of different
\* threads interleave; As<T> reads m_placeholder and then the Holder it
\* points to.  Deleting a Holder twice or reading a deleted Holder is
\* undefined: the process may end, or run on.
Racer(pc, holder, tmp, val) == [pc |-> pc, holder |-> holder, tmp |-> tmp, val |-> val]

notRace == <<graph, frame, log, ret, history, build, shared_nodes>>

InitRace ==
    /\ m_param_factory = "ParameterFactory"
    /\ heap = [a \in Addr |-> FreeMem]
    /\ m_nodes = <<>>
    /\ m_cb_create = <<>>
    /\ m_cb_delete = <<>>
    /\ m_cb_change = <<>>
    /\ frame = Idle
    /\ log = <<>>
    /\ ret = NoOutcome
    /\ returned = <<>>
    /\ argType = <<>>
    /\ deleted = {}
    /\ provided = NoCalls
    /\ build = FullBuild
    /\ \E a \in HolderAddr :
          /\ holders = New([h \in HolderAddr |-> FreeHolder], a,
                           TestParameterSet["type"].m_placeholder)
          /\ params = [k \in {"type"} |->
                          PointerTo(a, TestParameterSet["type"].m_type_lock)]
    /\ thread = [t \in Threads |-> Racer("start", NullHolder, NullHolder, <<>>)]
    /\ shared_nodes = <<>>

\* node->SetValue("type", value): Placeholder* holder = new Holder<T>(val)
RaceNewHolder ==
    /\ Running
    /\ \E t \in Threads, v \in SetValues, holder \in HolderAddr :
          /\ thread[t].pc = "start"
          /\ ~holders[holder].alloc
          /\ holders' = New(holders, holder, v)
          /\ thread' = [thread EXCEPT ![t] =
                           Racer("swap", holder, NullHolder, v.m_value)]
    /\ UNCHANGED <<notRace, params>>

\* std::swap(m_placeholder, holder): tmp = m_placeholder
RaceSwapRead ==
    /\ Running
    /\ \E t \in Threads :
          /\ thread[t].pc = "swap"
          /\ thread' = [thread EXCEPT ![t] =
                           Racer("swap_write", @.holder,
                                 params["type"].m_placeholder, @.val)]
    /\ UNCHANGED <<notRace, params, holders>>

\* std::swap(m_placeholder, holder): m_placeholder = holder; holder = tmp
RaceSwapWrite ==
    /\ Running
    /\ \E t \in Threads :
          /\ thread[t].pc = "swap_write"
          /\ params' = [params EXCEPT !["type"].m_placeholder = thread[t].holder]
          /\ thread' = [thread EXCEPT ![t] =
                           Racer("delete", @.tmp, NullHolder, @.val)]
    /\ UNCHANGED <<notRace, holders>>

\* delete holder; FireOnNodeParameterChange finds no callback
RaceDelete ==
    /\ Running
    /\ \E t \in Threads :
          /\ thread[t].pc = "delete"
          /\ \/ /\ holders' = Delete(holders, thread[t].holder)
                /\ thread' = [thread EXCEPT ![t] =
                                 Racer("done", NullHolder, NullHolder, @.val)]
             \/ /\ ~holders[thread[t].holder].alloc
                /\ holders' = holders
                /\ thread' = [thread EXCEPT ![t].pc = "crashed"]
    /\ UNCHANGED <<notRace, params>>

\* node->GetValue<int>("type"): As<int> reads m_placeholder
RaceAsRead ==
    /\ Running
    /\ \E t \in Threads :
          /\ thread[t].pc = "start"
          /\ thread' = [thread EXCEPT ![t] =
                           Racer("As", params["type"].m_placeholder, NullHolder,
                                 <<>>)]
    /\ UNCHANGED <<notRace, params, holders>>

\* As<int>: the type check and holder->m_value, of the Holder read before
RaceAsDeref ==
    /\ Running
    /\ \E t \in Threads :
          /\ thread[t].pc = "As"
          /\ LET r == AsIn(build, Deref(holders, PointerTo(thread[t].holder, FALSE)),
                           TypeName("int", "", ""))
             IN  \/ /\ holders[thread[t].holder].alloc
                    /\ thread' = [thread EXCEPT ![t] =
                                     Racer(IF r.status = "ok" THEN "got" ELSE "bad_cast",
                                           NullHolder, NullHolder, r.m_value)]
                 \/ /\ ~holders[thread[t].holder].alloc
                    /\ \E g \in Garbage :
                          thread' = [thread EXCEPT ![t] =
                                        Racer("got", NullHolder, NullHolder, g)]
                 \/ /\ ~holders[thread[t].holder].alloc
                    /\ thread' = [thread EXCEPT ![t].pc = "crashed"]
    /\ UNCHANGED <<notRace, params, holders>>

NextRace ==
    \/ RaceNewHolder
    \/ RaceSwapRead
    \/ RaceSwapWrite
    \/ RaceDelete
    \/ RaceAsRead
    \/ RaceAsDeref

SpecRace == InitRace /\ [][NextRace]_vars

\* ------------------------------------------ parameter.h used on its own
\* A program that declares Parameter objects p and q (gravity_tests.h:53,74)
\* and works on them, in any of the builds.  m_placeholder is a pointer here:
\* `new Holder` returns any address that is not allocated.
ParamNames == {"p", "q"}
\* gravity_tests.h:53,59,76
ParamValues ==
    {Holder("int", <<5>>), Holder("int", <<55>>), Holder("vector<int>", <<1, 2, 3>>)}
\* the T of As<T>: gravity_tests.h:55-57,78,229
AsTypes ==
    {TypeName("int", "", ""), TypeName("int", "const", ""),
     TypeName("int", "", "&&"), TypeName("int", "const", "&"),
     TypeName("vector<int>", "", "")}

NoType == TypeName("", "", "")

\* the outcome of the latest operation on a Parameter
\* (rhs: the object copied from, "" if none)
ParamOutcome(op, x, rhs, what, T, m_value) ==
    [op |-> op, x |-> x, rhs |-> rhs, what |-> what, T |-> T, m_value |-> m_value]

notParameter == <<graph, log, history, build, thread, shared_nodes>>

ClonePlaceholder_Shared(hs, src, a) == [ptr |-> src, hs |-> hs]

\* rhs.m_placeholder->Clone(), the new Holder at address a: the pointer
\* returned and the memory afterwards
ClonePlaceholder(hs, src, a) ==
    [ptr |-> a, hs |-> New(hs, a, Clone(Holder(hs[src].T, hs[src].m_value)))]

InitParam ==
    /\ m_param_factory = "ParameterFactory"
    /\ heap = [a \in Addr |-> FreeMem]
    /\ m_nodes = <<>>
    /\ m_cb_create = <<>>
    /\ m_cb_delete = <<>>
    /\ m_cb_change = <<>>
    /\ frame = Idle
    /\ log = <<>>
    /\ ret = ParamOutcome("none", "", "", "ok", NoType, <<>>)
    /\ returned = <<>>
    /\ argType = <<>>
    /\ deleted = {}
    /\ provided = NoCalls
    /\ build \in Builds
    /\ NoOthers

\* Parameter x;
ParameterDefault ==
    /\ frame = Idle
    /\ \E x \in ParamNames \ DOMAIN params :
          /\ params' = (x :> PointerTo(NullHolder, FALSE)) @@ params
          /\ ret' = ParamOutcome("Parameter()", x, "", "ok", NoType, <<>>)
    /\ UNCHANGED <<notParameter, frame, holders>>

\* Parameter x = val;
ParameterFromValue ==
    /\ frame = Idle
    /\ \E x \in ParamNames \ DOMAIN params, v \in ParamValues, a \in HolderAddr :
          /\ ~holders[a].alloc
          /\ holders' = New(holders, a, ParameterOf(v.T, v.m_value).m_placeholder)
          /\ params' = (x :> PointerTo(a, ParameterOf(v.T, v.m_value).m_type_lock))
                          @@ params
          /\ ret' = ParamOutcome("Parameter(T&&)", x, "", "ok",
                                 TypeName(v.T, "", ""), v.m_value)
    /\ UNCHANGED <<notParameter, frame>>

\* Parameter x(y);
ParameterCopyCtor ==
    /\ frame = Idle
    /\ \E x \in ParamNames \ DOMAIN params, y \in DOMAIN params :
          /\ IF params[y].m_placeholder = NullHolder
             THEN /\ params' = (x :> PointerTo(NullHolder, params[y].m_type_lock))
                                  @@ params
                  /\ holders' = holders
             ELSE \E a \in HolderAddr :
                     LET c == ClonePlaceholder(holders, params[y].m_placeholder, a)
                     IN  /\ ~holders[a].alloc
                         /\ params' = (x :> PointerTo(c.ptr, params[y].m_type_lock))
                                         @@ params
                         /\ holders' = c.hs
          /\ ret' = ParamOutcome("Parameter(Parameter const&)", x, y, "ok", NoType, <<>>)
    /\ UNCHANGED <<notParameter, frame>>

\* x goes out of scope: ~Parameter
ParameterDtor ==
    /\ frame = Idle
    /\ \E x \in DOMAIN params :
          /\ holders' = Delete(holders, params[x].m_placeholder)
          /\ params' = [y \in DOMAIN params \ {x} |-> params[y]]
          /\ ret' = ParamOutcome("~Parameter", x, "", "ok", NoType, <<>>)
    /\ UNCHANGED <<notParameter, frame>>

\* x = val;  new Holder, swap, delete
ParameterAssign ==
    /\ frame = Idle
    /\ \E x \in DOMAIN params, v \in ParamValues :
          LET r == AssignValue(Deref(holders, params[x]), v.T, v.m_value)
          IN  /\ IF r.status = "ok"
                 THEN \E holder \in HolderAddr :
                         /\ ~holders[holder].alloc
                         /\ params' = [params EXCEPT ![x].m_placeholder = holder]
                         /\ holders' = Delete(New(holders, holder, r.p.m_placeholder),
                                              params[x].m_placeholder)
                 ELSE UNCHANGED <<params, holders>>
              /\ ret' = ParamOutcome("operator=(T&&)", x, "", r.status,
                                     TypeName(v.T, "", ""), v.m_value)
    /\ UNCHANGED <<notParameter, frame>>

\* x = y;  Clone, swap, delete
ParameterCopyAssign ==
    /\ frame = Idle
    /\ \E x \in DOMAIN params, y \in DOMAIN params :
          LET r == CopyAssign(build, Deref(holders, params[x]),
                              Deref(holders, params[y]))
          IN  /\ IF r.status # "ok"
                 THEN UNCHANGED <<params, holders>>
                 ELSE IF params[y].m_placeholder = NullHolder
                 THEN /\ params' = [params EXCEPT ![x].m_placeholder = NullHolder]
                      /\ holders' = Delete(holders, params[x].m_placeholder)
                 ELSE \E a \in HolderAddr :
                         LET c == ClonePlaceholder(holders, params[y].m_placeholder, a)
                         IN  /\ ~holders[a].alloc
                             /\ params' = [params EXCEPT ![x].m_placeholder = c.ptr]
                             /\ holders' = Delete(c.hs, params[x].m_placeholder)
              /\ ret' = ParamOutcome("operator=(Parameter const&)", x, y, r.status,
                                     NoType, <<>>)
    /\ UNCHANGED <<notParameter, frame>>

\* x.SetTypeLock(type_lock), declared with ENABLE_TYPE_LOCK
ParameterSetTypeLock ==
    /\ frame = Idle
    /\ build.ENABLE_TYPE_LOCK
    /\ \E x \in DOMAIN params, type_lock \in BOOLEAN :
          /\ params' = [params EXCEPT ![x] = SetTypeLock(@, type_lock)]
          /\ ret' = ParamOutcome("SetTypeLock", x, "", "ok", NoType, <<>>)
    /\ UNCHANGED <<notParameter, frame, holders>>

\* x.As<T>() read
ParameterAs ==
    /\ \E x \in DOMAIN params, T \in AsTypes :
          LET r == AsIn(build, Deref(holders, params[x]), T)
          IN  \/ /\ r.status # "undefined"
                 /\ ret' = ParamOutcome("As", x, "", r.status, T, r.m_value)
                 /\ frame' = frame
              \/ /\ r.status = "undefined"
                 /\ \E g \in Garbage : ret' = ParamOutcome("As", x, "", "ok", T, g)
                 /\ frame' = frame
              \/ /\ r.status = "undefined"
                 /\ ret' = ParamOutcome("As", x, "", "SIGSEGV", T, <<>>)
                 /\ frame' = Crashed(0, 0)
    /\ frame = Idle
    /\ UNCHANGED <<notParameter, holders, params>>

\* x.As<T>() = val: a write through the reference As returns
ParameterAsWrite ==
    /\ frame = Idle
    /\ \E x \in DOMAIN params, v \in ParamValues :
          LET T == TypeName(v.T, "", "")
              r == AsIn(build, Deref(holders, params[x]), T)
          IN  \/ /\ r.status = "ok"
                 /\ holders' = [holders EXCEPT
                                   ![params[x].m_placeholder].m_value = v.m_value]
                 /\ ret' = ParamOutcome("As=", x, "", "ok", T, v.m_value)
                 /\ frame' = frame
              \/ /\ r.status = "bad_cast"
                 /\ ret' = ParamOutcome("As=", x, "", "bad_cast", T, v.m_value)
                 /\ UNCHANGED <<holders, frame>>
              \/ /\ r.status = "undefined"
                 /\ params[x].m_placeholder # NullHolder
                 /\ \E g \in Garbage :
                       holders' = [holders EXCEPT
                                      ![params[x].m_placeholder].m_value = g]
                 /\ ret' = ParamOutcome("As=", x, "", "ok", T, v.m_value)
                 /\ frame' = frame
              \/ /\ r.status = "undefined"
                 /\ ret' = ParamOutcome("As=", x, "", "SIGSEGV", T, v.m_value)
                 /\ holders' = holders
                 /\ frame' = Crashed(0, 0)
    /\ UNCHANGED <<notParameter, params>>

NextParam ==
    \/ ParameterDefault
    \/ ParameterFromValue
    \/ ParameterCopyCtor
    \/ ParameterDtor
    \/ ParameterAssign
    \/ ParameterCopyAssign
    \/ ParameterSetTypeLock
    \/ ParameterAs
    \/ ParameterAsWrite

SpecParam == InitParam /\ [][NextParam]_vars

\* ----------------------------------------- nodes that own their parameters
\* Several nodes live at once, their std::map<Key, Parameter> held as it is in
\* memory: m_paramset[key].m_placeholder is a pointer to a Holder.  No
\* callback is registered, so a call is one step.  The allocator of this
\* section is first-fit: `new` returns the lowest address that is free.
NumNodes == 2       \* nodes created in one run
OwnedAddr == 1..NumNodes
\* one Holder for each parameter of each node, and the one operator= makes
\* before it deletes the old one
OwnedHolderAddr == 1..(NumNodes * Cardinality(Keys) + 1)
\* params.emplace(...) in the order of gravity_tests.h:23-25
EmplaceOrder == <<"type", "float_value", "vector_value">>
\* gravity_tests.h:144
OwnedSetValues == {Holder("int", <<10>>)}
OwnedModifyKeys == {"vector_value", "no_such_key"}

FirstFree(mem) ==
    CHOOSE a \in DOMAIN mem :
        ~mem[a].alloc /\ \A b \in DOMAIN mem : b < a => mem[b].alloc

RECURSIVE NewParameterSet_Shared(_, _, _)
NewParameterSet_Shared(hs, values, keys) ==
    IF keys = <<>> THEN [hs |-> hs, set |-> <<>>]
    ELSE LET k == Head(keys)
             p == values[k]
             same == {b \in DOMAIN hs :
                         hs[b].alloc /\ Holder(hs[b].T, hs[b].m_value) = p.m_placeholder}
             a == IF p.m_placeholder = nullptr THEN NullHolder
                  ELSE IF same # {} THEN CHOOSE b \in same : TRUE
                  ELSE FirstFree(hs)
             hs1 == IF a = NullHolder \/ same # {} THEN hs
                    ELSE New(hs, a, p.m_placeholder)
             rest == NewParameterSet_Shared(hs1, values, Tail(keys))
         IN  [hs |-> rest.hs,
              set |-> (k :> PointerTo(a, p.m_type_lock)) @@ rest.set]

\* the std::map GetParameterSet builds and CreateNode moves into the node:
\* each emplace constructs a Parameter from a value, which allocates its own
\* Holder; moving the map copies no Parameter.  Yields the memory afterwards
\* and the map.
RECURSIVE NewParameterSet(_, _, _)
NewParameterSet(hs, values, keys) ==
    IF keys = <<>> THEN [hs |-> hs, set |-> <<>>]
    ELSE LET k == Head(keys)
             p == values[k]
             a == IF p.m_placeholder = nullptr THEN NullHolder ELSE FirstFree(hs)
             hs1 == IF a = NullHolder THEN hs ELSE New(hs, a, p.m_placeholder)
             rest == NewParameterSet(hs1, values, Tail(keys))
         IN  [hs |-> rest.hs,
              set |-> (k :> PointerTo(a, p.m_type_lock)) @@ rest.set]

\* the value under `key` of the node at address `node`, read through its
\* pointer
ValueOf(mem, hs, node, key) == Deref(hs, mem[node].m_paramset[key])

InitOwned ==
    /\ m_param_factory = "ParameterFactory"
    /\ heap = [a \in OwnedAddr |-> FreeMem]
    /\ m_nodes = <<>>
    /\ m_cb_create = <<>>
    /\ m_cb_delete = <<>>
    /\ m_cb_change = <<>>
    /\ frame = Idle
    /\ log = <<>>
    /\ ret = NoOutcome
    /\ returned = <<>>
    /\ argType = <<>>
    /\ deleted = {}
    /\ provided = NoCalls
    /\ build = FullBuild
    /\ holders = [a \in OwnedHolderAddr |-> FreeHolder]
    /\ params = <<>>
    /\ thread = <<>>
    /\ shared_nodes = <<>>

notOwned == <<m_param_factory, m_cb_create, m_cb_delete, m_cb_change, frame, log,
              deleted, build, params, thread, shared_nodes>>

\* CreateNode(type): new Node, m_nodes.emplace, FireOnNodeCreate (no callback),
\* return node
OwnedCreateNode ==
    /\ frame = Idle
    /\ Len(returned) < NumNodes
    /\ \E type \in NodeTypes :
          LET node == FirstFree(heap)
              made == NewParameterSet(holders, GetParameterSet(m_param_factory, type),
                                      EmplaceOrder)
          IN  /\ provided' = Provide(provided, type)
              /\ holders' = made.hs
              /\ heap' = [heap EXCEPT ![node] = Node(type, made.set, NextId)]
              /\ m_nodes' = Emplace(m_nodes, node)
              /\ argType' = (NextId :> type) @@ argType
              /\ returned' = Append(returned, node)
              /\ ret' = Outcome("CreateNode", NextId, "", "ok", type)
    /\ UNCHANGED notOwned

\* node->SetValue(key, value): find, operator=(T&&) (new Holder, swap, delete),
\* FireOnNodeParameterChange (no callback)
OwnedSetValue ==
    /\ frame = Idle
    /\ \E h \in Handles, key \in SetKeys, v \in OwnedSetValues :
          LET node == AddrOf(h)
          IN  IF key \notin DOMAIN heap[node].m_paramset
              THEN /\ ret' = Outcome("SetValue", h, key, KeyNotFoundError, 0)
                   /\ UNCHANGED <<heap, holders>>
              ELSE LET old == heap[node].m_paramset[key]
                       r == AssignValue(Deref(holders, old), v.T, v.m_value)
                       holder == FirstFree(holders)
                   IN  /\ ret' = Outcome("SetValue", h, key, r.status, 0)
                       /\ IF r.status = "ok"
                          THEN /\ heap' = [heap EXCEPT
                                              ![node].m_paramset[key].m_placeholder
                                                  = holder]
                               /\ holders' = Delete(New(holders, holder,
                                                        r.p.m_placeholder),
                                                    old.m_placeholder)
                          ELSE UNCHANGED <<heap, holders>>
    /\ UNCHANGED <<notOwned, m_nodes, returned, argType, provided>>

\* node->ModifyValue<T>(key, func): find, func(As<T>()) writes the Holder in
\* place, FireOnNodeParameterChange (no callback)
OwnedModifyValue ==
    /\ frame = Idle
    /\ \E h \in Handles, key \in OwnedModifyKeys, func \in Mutators :
          LET node == AddrOf(h)
          IN  IF key \notin DOMAIN heap[node].m_paramset
              THEN /\ ret' = Outcome("ModifyValue", h, key, KeyNotFoundError, 0)
                   /\ holders' = holders
              ELSE LET a == heap[node].m_paramset[key].m_placeholder
                       r == AsIn(build, Deref(holders, heap[node].m_paramset[key]),
                                 MutatorType(func))
                   IN  /\ r.status = "ok"
                       /\ Len(Apply(func, r.m_value)) <= MaxLen
                       /\ holders' = [holders EXCEPT ![a].m_value = Apply(func, @)]
                       /\ ret' = Outcome("ModifyValue", h, key, "ok", 0)
    /\ UNCHANGED <<notOwned, heap, m_nodes, returned, argType, provided>>

NextOwned ==
    \/ OwnedCreateNode
    \/ OwnedSetValue
    \/ OwnedModifyValue

SpecOwned == InitOwned /\ [][NextOwned]_vars

\* ------------------------------------------------- callbacks that throw
\* what a callback throws (any exception: the graph catches none)
CallbackError == "exception thrown by a callback"

\* the list the Fire* loop of the call in progress iterates over
Firing ==
    CASE frame.op = "CreateNode" -> m_cb_create
      [] frame.op = "DeleteNode" -> m_cb_delete
      [] frame.op \in {"SetValue", "ModifyValue"} -> m_cb_change
      [] OTHER -> <<>>

CallbackThrows_RollsBack ==
    /\ frame.i >= 1
    /\ frame.i <= Len(Firing)
    /\ \E type \in ReadType(frame.node) : FilteredCallbackCall(Firing[frame.i], type)
    /\ frame' = Idle
    /\ log' = <<>>
    /\ ret' = Outcome(frame.op, frame.h, frame.key, CallbackError, 0)
    /\ IF frame.op = "CreateNode"
       THEN /\ m_nodes' = Erase(m_nodes, FindIf(m_nodes, frame.node))
            /\ heap' = [heap EXCEPT ![frame.node] = FreeMem]
       ELSE UNCHANGED <<m_nodes, heap>>
    /\ UNCHANGED <<m_param_factory, m_cb_create, m_cb_delete, m_cb_change,
                   history, others>>

\* one iteration of a Fire* loop whose callback is called and throws: the
\* exception leaves the loop, Fire*, and CreateNode / DeleteNode / SetValue /
\* ModifyValue, none of which has a handler; the statements after the Fire*
\* call (return node; m_nodes.erase(iter)) are not executed
CallbackThrows ==
    /\ frame.i >= 1
    /\ frame.i <= Len(Firing)
    /\ \E type \in ReadType(frame.node) : FilteredCallbackCall(Firing[frame.i], type)
    /\ frame' = Idle
    /\ log' = <<>>
    /\ ret' = Outcome(frame.op, frame.h, frame.key, CallbackError, 0)
    /\ UNCHANGED <<graph, history, others>>

NextThrow ==
    \/ RegisterOnNodeCreateCallback
    \/ RegisterOnNodeDeleteCallback
    \/ RegisterOnNodeParameterChangeCallback
    \/ CreateNode
    \/ FireOnNodeCreate
    \/ CreateNodeReturn
    \/ DeleteNode
    \/ FireOnNodeDelete
    \/ DeleteNodeErase
    \/ SetValue
    \/ FireOnNodeParameterChange
    \/ SetValueReturn
    \/ CallbackThrows

\* the graph of the tests, constructed with their ParameterFactory
InitTestGraph == Init /\ m_param_factory = "ParameterFactory"

SpecThrow == InitTestGraph /\ [][NextThrow]_vars

\* ------------------------------------------------ the graph is destroyed
\* the graph after its destructor: no call can be made on it
Destroyed == Frame("destroyed", 0, 0, "", nullptr, 0)

DestroyGraph_Notifies ==
    /\ frame = Idle
    /\ m_cb_change' = <<>>
    /\ m_cb_delete' = <<>>
    /\ m_cb_create' = <<>>
    /\ m_param_factory' = "destroyed"
    /\ m_nodes' = <<>>
    /\ heap' = [a \in DOMAIN heap |-> FreeMem]
    /\ argType' = <<>>
    /\ frame' = Destroyed
    /\ log' = IF m_nodes = <<>> THEN <<>>
              ELSE [k \in 1..Len(m_cb_delete) |->
                       Observe(m_cb_delete[k].m_func, m_nodes[1], "",
                               heap[m_nodes[1]].m_type)]
    /\ ret' = Outcome("~SceneGraph", 0, "", "ok", 0)
    /\ UNCHANGED <<returned, deleted, provided, others>>

\* ~SceneGraph() = default: the members are destroyed in the reverse order of
\* their declaration: m_cb_change, m_cb_delete, m_cb_create, m_param_factory
\* (the unique_ptr deletes the factory), then m_nodes (each unique_ptr deletes
\* its Node, whose destructor destroys m_paramset); no function of the graph
\* is called
DestroyGraph ==
    /\ frame = Idle
    /\ m_cb_change' = <<>>
    /\ m_cb_delete' = <<>>
    /\ m_cb_create' = <<>>
    /\ m_param_factory' = "destroyed"
    /\ m_nodes' = <<>>
    /\ heap' = [a \in DOMAIN heap |-> FreeMem]
    /\ argType' = <<>>
    /\ frame' = Destroyed
    /\ log' = log
    /\ ret' = Outcome("~SceneGraph", 0, "", "ok", 0)
    /\ UNCHANGED <<returned, deleted, provided, others>>

NextDestroy ==
    \/ RegisterOnNodeCreateCallback
    \/ RegisterOnNodeDeleteCallback
    \/ CreateNode
    \/ FireOnNodeCreate
    \/ CreateNodeReturn
    \/ DeleteNode
    \/ FireOnNodeDelete
    \/ DeleteNodeErase
    \/ DestroyGraph

SpecDestroy == InitTestGraph /\ [][NextDestroy]_vars

\* ================================================================ claims
\* the registry the call in progress dispatches to
Registry ==
    CASE frame.op = "CreateNode" -> m_cb_create
      [] frame.op = "DeleteNode" -> m_cb_delete
      [] frame.op \in {"SetValue", "ModifyValue"} -> m_cb_change
      [] OTHER -> <<>>

\* how often the callback registered j-th was invoked by the call in progress
Invocations(j) == Cardinality({k \in 1..Len(log) : log[k].m_func = j})

\* the type the node of the event in progress was created with
EventType == argType[heap[frame.node].id]

Matches(cb, type) == cb.m_filter = {} \/ type \in cb.m_filter

Dispatching == frame.op \in {"CreateNode", "DeleteNode", "SetValue"}

DispatchDone == Dispatching /\ frame.i > Len(Registry)

\* C1: for every handle h that CreateNode returned, DeleteNode(h) succeeds
\* exactly once: a DeleteNode(h) that finds a node to delete is the first one
\* for the node of h, and a DeleteNode(h) that throws NodeNotFoundError comes
\* after the node of h was deleted.
C1_DeleteSucceedsExactlyOnce ==
    /\ frame.op = "DeleteNode" => frame.h \notin deleted
    /\ (ret.op = "DeleteNode" /\ ret.h \in Handles) => ret.h \in deleted

\* C2: the handle of a deleted node never again resolves to a node of the
\* live-node collection, also when a later CreateNode reuses its address.
C2_StaleHandleNeverResolves ==
    \A h \in Handles : h \in deleted => FindIf(m_nodes, AddrOf(h)) = 0

\* C3: after DeleteNode(h) succeeded, every call addressed to h (GetType,
\* SetValue, DeleteNode) ends with NodeNotFoundError, without a dispatch and
\* without ending the process.
C3_DeletedHandleIsRejected ==
    /\ frame.op # "idle" => frame.h \notin deleted
    /\ (ret.op # "none" /\ ret.h \in deleted) => ret.what = NodeNotFoundError

C5_FilterSemantics ==
    Dispatching =>
        \A j \in 1..Len(Registry) :
            Invocations(Registry[j].m_func) =
                IF j < frame.i /\ Matches(Registry[j], EventType) THEN 1 ELSE 0

C5_Witness ==
    /\ DispatchDone
    /\ Len(Registry) = 2
    /\ \E j \in 1..2 : Registry[j].m_filter # {} /\ EventType \notin Registry[j].m_filter
    /\ Len(log) = 1

\* C6: the callbacks of one event run in the order of their registration, and
\* the triggering operation returns only after every matching callback of the
\* registry has run.
C6_RegistrationOrder ==
    /\ [](\A k \in 1..(Len(log) - 1) : log[k].m_func < log[k + 1].m_func)
    /\ [][(Dispatching /\ frame'.op = "idle") =>
            \A j \in 1..Len(Registry) :
                Matches(Registry[j], EventType) =>
                    Invocations(Registry[j].m_func) = 1]_vars

C6_Witness == DispatchDone /\ Len(log) = 2

\* C7: while the delete callbacks of a DeleteNode run, and until the last of
\* them has returned, the node is in the live-node collection and its type and
\* attributes are readable; the collection loses a node only in a DeleteNode
\* whose dispatch is done.
C7_DeleteNotifiesBeforeErase ==
    /\ [](frame.op = "DeleteNode" =>
            /\ FindIf(m_nodes, frame.node) # 0
            /\ heap[frame.node].alloc
            /\ \A k \in 1..Len(log) :
                  /\ log[k].in_nodes
                  /\ log[k].node = frame.node
                  /\ log[k].type = EventType
                  /\ DOMAIN log[k].m_paramset = Keys)
    /\ [][Len(m_nodes') < Len(m_nodes) =>
            frame.op = "DeleteNode" /\ frame.i > Len(m_cb_delete)]_vars

C7_Witness ==
    /\ frame.op = "DeleteNode"
    /\ DispatchDone
    /\ Len(log) >= 1
    /\ FindIf(m_nodes, frame.node) # 0

\* C8: CreateNode(type) has inserted the node when its create callbacks run,
\* hands every create callback the pointer it then returns, and the node's
\* GetType() is `type` for as long as the node lives.
C8_CreateInsertsThenNotifies ==
    /\ [](frame.op = "CreateNode" =>
            /\ FindIf(m_nodes, frame.node) # 0
            /\ \A k \in 1..Len(log) : log[k].node = frame.node /\ log[k].in_nodes)
    /\ [](\A i \in 1..Len(m_nodes) :
            NodeGetType(heap[m_nodes[i]]) = argType[heap[m_nodes[i]].id])
    /\ [](\A h \in Handles \ deleted : heap[AddrOf(h)].id = h)
    /\ [][(frame.op = "CreateNode" /\ frame'.op = "idle") =>
            /\ returned' = Append(returned, frame.node)
            /\ heap'[frame.node].id = frame.h]_vars

C8_Witness ==
    /\ frame.op = "CreateNode"
    /\ DispatchDone
    /\ Len(log) >= 1
    /\ EventType = 2

\* C9: a SetValue that throws (no such key: KeyNotFoundError; rejected by a
\* type-locked parameter: TypeLockViolation) leaves every node's attributes as
\* they were and starts no dispatch of change callbacks.
C9_FailedSetValueChangesNothing ==
    [][(ret' # ret /\ ret'.op = "SetValue") =>
        /\ ret'.what \in {KeyNotFoundError, TypeLockViolation}
        /\ heap' = heap
        /\ frame' = Idle
        /\ log' = <<>>]_vars

C9_Witness == ret.op = "SetValue" /\ ret.what = TypeLockViolation /\ ret.key = "type"

\* C10: a SetValue(key, v) that succeeds has committed v when the first change
\* callback runs (GetValue of key in a callback, and after the call, yields
\* v), and notifies once: each matching change callback once, with the node's
\* pointer and the key.
C10_SetValueCommitsThenNotifies ==
    /\ [](frame.op = "SetValue" =>
            /\ NodeGetValue(heap[frame.node], frame.key, frame.val.T)
                 = [status |-> "ok", m_value |-> frame.val.m_value]
            /\ \A k \in 1..Len(log) :
                  /\ log[k].node = frame.node
                  /\ log[k].key = frame.key
                  /\ log[k].m_paramset[frame.key].m_placeholder = frame.val
            /\ \A j \in 1..Len(m_cb_change) :
                  Invocations(m_cb_change[j].m_func) =
                      IF j < frame.i /\ Matches(m_cb_change[j], EventType)
                      THEN 1 ELSE 0)
    /\ [][(frame.op = "SetValue" /\ frame'.op = "idle") =>
            /\ heap' = heap
            /\ \A j \in 1..Len(m_cb_change) :
                  Matches(m_cb_change[j], EventType) =>
                      Invocations(m_cb_change[j].m_func) = 1]_vars

C10_Witness ==
    /\ frame.op = "SetValue"
    /\ DispatchDone
    /\ Len(log) >= 1
    /\ frame.val.T = "vector<int>"

\* the value the Parameter object x holds
Held(x) == Deref(holders, params[x])

\* C11: a ModifyValue<T>(key, func) on a parameter that holds a T calls func
\* once, on the held value itself (the parameter then holds what func made of
\* it), and only then notifies: every change callback runs after func, sees
\* the modified value, and each matching one runs once.
C11_ModifyValueMutatesThenNotifies ==
    /\ []((frame.op = "ModifyValue" /\ frame.val # nullptr) =>
            /\ Len(log) >= 1
            /\ log[1].m_func = 0
            /\ \E func \in Mutators :
                  heap[frame.node].m_paramset[frame.key].m_placeholder =
                      Holder(MutatorType(func).base,
                             Apply(func, log[1].m_paramset[frame.key]
                                               .m_placeholder.m_value))
            /\ Invocations(0) = 1
            /\ \A k \in 2..Len(log) :
                  /\ log[k].node = frame.node
                  /\ log[k].key = frame.key
                  /\ log[k].m_paramset[frame.key].m_placeholder = frame.val
            /\ \A j \in 1..Len(m_cb_change) :
                  Invocations(m_cb_change[j].m_func) =
                      IF j < frame.i /\ Matches(m_cb_change[j], EventType)
                      THEN 1 ELSE 0)
    /\ [][(frame.op = "ModifyValue" /\ frame.val # nullptr /\ frame'.op = "idle") =>
            /\ heap' = heap
            /\ \A j \in 1..Len(m_cb_change) :
                  Matches(m_cb_change[j], EventType) =>
                      Invocations(m_cb_change[j].m_func) = 1]_vars

C11_Witness ==
    /\ frame.op = "ModifyValue"
    /\ frame.i > Len(m_cb_change)
    /\ Len(log) >= 2
    /\ frame.val = Holder("vector<int>", <<1, 2, 3, 4, 5>>)

\* the latest call was a GetValue<T> or ModifyValue<T> of a key the node has
TypedCall == ret.op \in {"GetValue", "ModifyValue"} /\ ret.what # KeyNotFoundError

\* the parameter that call addressed holds a decay<T>
HoldsT ==
    LET p == heap[AddrOf(ret.h)].m_paramset[ret.key]
    IN  p.m_placeholder # nullptr /\ GetTypeIndex(p.m_placeholder) = ret.T.base

\* C12 as stated: a GetValue<T> or ModifyValue<T> on a parameter that is empty
\* or holds another type throws (std::bad_cast), and then func was not
\* called, no memory was written, no change callback runs and the process
\* goes on.
C12_ExtractionFails ==
    /\ (TypedCall /\ ~HoldsT) => ret.what = "bad_cast"
    /\ frame.op = "ModifyValue" => frame.val # nullptr
    /\ frame.op # "crashed"

\* C12, amended: in a build with ENABLE_TYPE_CHECK a GetValue<T> or
\* ModifyValue<T> throws std::bad_cast if the parameter is empty or holds
\* another type, and succeeds if it holds a decay<T>; a ModifyValue that
\* throws has not called func, has changed no node and starts no dispatch.
C12_CheckedExtractionFails ==
    /\ [](build.ENABLE_TYPE_CHECK =>
            /\ TypedCall => ret.what = (IF HoldsT THEN "ok" ELSE "bad_cast")
            /\ frame.op = "ModifyValue" => frame.val # nullptr
            /\ frame.op # "crashed")
    /\ [][(build.ENABLE_TYPE_CHECK /\ ret' # ret /\ ret'.op = "ModifyValue") =>
            /\ heap' = heap
            /\ frame' = Idle
            /\ log' = <<>>]_vars

C12_Witness ==
    /\ build.ENABLE_TYPE_CHECK
    /\ ret.op = "ModifyValue"
    /\ ret.what = "bad_cast"
    /\ heap[AddrOf(ret.h)].m_paramset[ret.key].m_placeholder = nullptr

C18_ReentrantCallsAreQueued ==
    [][(frame.op \in {"CreateNode", "DeleteNode"} /\ frame'.op = frame.op) =>
        /\ m_cb_create' = m_cb_create
        /\ m_cb_delete' = m_cb_delete
        /\ m_nodes' = m_nodes
        /\ heap' = heap]_vars

\* C19: when several threads call CreateNode concurrently and then DeleteNode
\* concurrently, no insertion and no removal is lost: every node a CreateNode
\* returned is in the live-node collection until it is deleted, after the
\* creating threads are joined the collection holds all their nodes, every
\* DeleteNode finds its node, and after the deleting threads are done the
\* collection is empty.
C19_NoLostUpdate ==
    /\ Running
    /\ \A i \in 1..Len(shared_nodes) : FindIf(m_nodes, shared_nodes[i]) # 0
    /\ (\A t \in Threads : thread[t].pc = "joined") =>
          Len(m_nodes) = NumThreads * NodesPerThread
    /\ (\A t \in Threads : thread[t].pc = "done") => m_nodes = <<>>

\* the values of type int a SetValue of the run has written or may write, and
\* the value the factory gave the parameter
IntsWritten ==
    {v.m_value : v \in {w \in SetValues : w.T = "int"}}
        \cup {TestParameterSet["type"].m_placeholder.m_value}

\* C20: concurrent SetValue and GetValue calls on one node behave as if they
\* ran one after the other: the process goes on, every thread deletes a
\* Holder that is allocated and that no other thread is about to delete, the
\* parameter always points to an allocated Holder, a GetValue<int> returns a
\* value that was written, and when all calls are done the parameter holds
\* the value of one of the SetValue calls (or its first value, if there was
\* none).
C20_Linearizable ==
    /\ Running
    /\ holders[params["type"].m_placeholder].alloc
    /\ \A t \in Threads :
          thread[t].pc = "delete" =>
              /\ holders[thread[t].holder].alloc
              /\ \A u \in Threads \ {t} :
                    thread[u].pc = "delete" => thread[u].holder # thread[t].holder
    /\ \A t \in Threads : thread[t].pc = "got" => thread[t].val \in IntsWritten
    /\ (\A t \in Threads : thread[t].pc \in {"done", "got", "bad_cast"}) =>
          \/ \E t \in Threads :
                /\ thread[t].pc = "done"
                /\ holders[params["type"].m_placeholder].m_value = thread[t].val
          \/ /\ \A t \in Threads : thread[t].pc # "done"
             /\ Held("type").m_placeholder = TestParameterSet["type"].m_placeholder

\* C13: an assignment x = val of a value of type T to a Parameter whose type
\* lock is set and which holds a value succeeds if it holds a T, and otherwise
\* throws TypeLockViolation and leaves the held value, its type and the lock
\* as they were; a Parameter whose lock is not set, or which is empty, accepts
\* a value of any type.  After a successful assignment the Parameter holds val
\* as a T.
C13_TypeLock ==
    [][ret'.op = "operator=(T&&)" =>
        LET x == ret'.x
            locked == Held(x).m_type_lock /\ Held(x).m_placeholder # nullptr
            after == Deref(holders', params'[x])
        IN  IF locked /\ GetTypeIndex(Held(x).m_placeholder) # ret'.T.base
            THEN ret'.what = TypeLockViolation /\ after = Held(x)
            ELSE /\ ret'.what = "ok"
                 /\ after.m_placeholder = Holder(ret'.T.base, ret'.m_value)
                 /\ after.m_type_lock = Held(x).m_type_lock]_vars

C13_Witness ==
    /\ ret.op = "operator=(T&&)"
    /\ ret.what = TypeLockViolation
    /\ Held(ret.x).m_type_lock
    /\ Held(ret.x).m_placeholder = Holder("int", <<5>>)
    /\ ret.T.base = "vector<int>"

\* C14: a copy-assignment x = y always succeeds and leaves x holding a copy of
\* what y holds, also when x holds a value and y is empty: x is then empty.
C14_CopyAssignReplaces ==
    ret.op = "operator=(Parameter const&)" =>
        /\ ret.what = "ok"
        /\ Held(ret.x).m_placeholder = Held(ret.rhs).m_placeholder

\* C15: two Parameter objects never share a Holder, so that of a Parameter and
\* its clone (made by the copy constructor or by copy-assignment) each holds
\* an allocated Holder of its own, and an operation on one of them (a write
\* through As, an assignment, SetTypeLock, its destruction) leaves the value,
\* the type and the lock of the other as they were.
C15_CloneIsIndependent ==
    /\ [](\A x \in DOMAIN params :
            params[x].m_placeholder # NullHolder =>
                /\ holders[params[x].m_placeholder].alloc
                /\ \A y \in DOMAIN params \ {x} :
                      params[y].m_placeholder # params[x].m_placeholder)
    /\ [](ret.op \in {"Parameter(Parameter const&)", "operator=(Parameter const&)"}
             /\ ret.what = "ok" =>
                Held(ret.x).m_placeholder = Held(ret.rhs).m_placeholder)
    /\ [][\A y \in DOMAIN params \cap DOMAIN params' :
            y # ret'.x => Deref(holders', params'[y]) = Held(y)]_vars

C15_Witness ==
    /\ ret.op = "Parameter(Parameter const&)"
    /\ Held(ret.x).m_placeholder = Holder("vector<int>", <<1, 2, 3>>)
    /\ Held(ret.rhs) = Held(ret.x)
    /\ params[ret.x].m_placeholder # params[ret.rhs].m_placeholder

\* C16: a Parameter constructed from, or last assigned, a value val of type T
\* yields val from As<T>, As<T const>, As<T&&> and As<T const&> alike, in
\* every build; and an As<T> on a Parameter that holds a decay<T> returns the
\* value held.
C16_RoundTrip ==
    /\ (ret.op \in {"Parameter(T&&)", "operator=(T&&)"} /\ ret.what = "ok") =>
          \A T \in AsTypes :
              T.base = ret.T.base =>
                  AsIn(build, Held(ret.x), T)
                      = [status |-> "ok", m_value |-> ret.m_value]
    /\ (ret.op = "As" /\ Held(ret.x).m_placeholder # nullptr
          /\ GetTypeIndex(Held(ret.x).m_placeholder) = ret.T.base) =>
          ret.what = "ok" /\ ret.m_value = Held(ret.x).m_placeholder.m_value

C16_Witness ==
    /\ ret.op = "As"
    /\ ret.T = TypeName("int", "const", "")
    /\ ret.what = "ok"
    /\ ret.m_value = <<55>>
    /\ ~build.ENABLE_TYPE_CHECK

C22_FailedDeleteChangesNothing ==
    [][ret' # ret /\ ret'.op = "DeleteNode"
          => /\ ret'.what = NodeNotFoundError
             /\ FindIf(m_nodes, AddrOf(ret'.h)) = 0
             /\ frame' = Idle
             /\ log' = <<>>
             /\ graph' = graph
             /\ history' = history]_vars

\* DeleteNode of a pointer CreateNode never returned has failed, with a node
\* live and two delete callbacks registered, after a DeleteNode that succeeded
C22_Witness ==
    /\ ret.op = "DeleteNode"
    /\ ret.what = NodeNotFoundError
    /\ ret.h = 0
    /\ Len(m_nodes) = 1
    /\ Len(m_cb_delete) = 2
    /\ deleted # {}

\* DeleteNode of a pointer DeleteNode has already freed has failed, with two
\* delete callbacks registered
C22_WitnessDeleted ==
    /\ ret.op = "DeleteNode"
    /\ ret.what = NodeNotFoundError
    /\ ret.h \in deleted
    /\ Len(m_cb_delete) = 2

\* ------------------------------------------------------------ C23
\* the parameters of the live nodes: <<node, key>>
Owned == {nk \in OwnedAddr \X Keys :
             heap[nk[1]].alloc /\ nk[2] \in DOMAIN heap[nk[1]].m_paramset}

\* C23: no two parameters, of one node or of two nodes, point to the same
\* Holder, and every parameter points to a Holder that is allocated; a
\* SetValue or ModifyValue call leaves every node live with its type and its
\* keys, and leaves the value under every key of every node as it was,
\* except the value under the key it was given of the node it was called on.
C23_ValuesAreNotShared ==
    /\ [](\A x \in Owned, y \in Owned :
             LET px == heap[x[1]].m_paramset[x[2]].m_placeholder
                 py == heap[y[1]].m_paramset[y[2]].m_placeholder
             IN  /\ px \in OwnedHolderAddr
                 /\ holders[px].alloc
                 /\ x # y => px # py)
    /\ [][ret'.op \in {"SetValue", "ModifyValue"}
             => /\ Owned' = Owned
                /\ \A x \in Owned :
                      /\ heap'[x[1]].m_type = heap[x[1]].m_type
                      /\ \/ x = <<AddrOf(ret'.h), ret'.key>>
                         \/ ValueOf(heap', holders', x[1], x[2])
                              = ValueOf(heap, holders, x[1], x[2])]_vars

\* two nodes created with the same type; SetValue has replaced "type" of the
\* second and ModifyValue has grown "vector_value" of the first, and the
\* other node still holds what the factory gave it under either key
C23_Witness ==
    /\ Len(returned) = 2
    /\ heap[returned[1]].m_type = heap[returned[2]].m_type
    /\ ret.op = "SetValue" /\ ret.what = "ok" /\ ret.h = 2
    /\ ValueOf(heap, holders, returned[2], "type").m_placeholder = Holder("int", <<10>>)
    /\ ValueOf(heap, holders, returned[1], "type").m_placeholder = Holder("int", <<5>>)
    /\ ValueOf(heap, holders, returned[1], "vector_value").m_placeholder
          = Holder("vector<int>", <<1, 2, 3, 4, 5>>)
    /\ ValueOf(heap, holders, returned[2], "vector_value").m_placeholder
          = Holder("vector<int>", <<1, 2, 3>>)

C24_WitnessDelete ==
    /\ ret.op = "DeleteNode"
    /\ ret.what = CallbackError
    /\ FindIf(m_nodes, AddrOf(ret.h)) # 0
    /\ deleted = {}

\* the second change callback has thrown, after the first was invoked: the
\* node holds the value SetValue was given
C24_WitnessSetValue ==
    /\ ret.op = "SetValue"
    /\ ret.what = CallbackError
    /\ Len(m_cb_change) = 2
    /\ heap[AddrOf(ret.h)].m_paramset["type"].m_placeholder = Holder("int", <<10>>)

\* ------------------------------------------------------------ C25
\* C25: the step that destroys the graph invokes no callback and leaves no
\* node in m_nodes and no node allocated, whatever nodes were live and
\* whatever delete callbacks were registered; it adds nothing to the nodes
\* DeleteNode destroyed.  A delete callback is invoked only by a DeleteNode
\* call in progress, on the node that call was given, which is in m_nodes;
\* once the graph is destroyed no callback is invoked any more.
C25_DestructionFiresNoDeleteCallback ==
    /\ [][frame' = Destroyed /\ frame # Destroyed
             => /\ frame = Idle
                /\ log' = <<>>
                /\ m_nodes' = <<>>
                /\ \A a \in DOMAIN heap : ~heap'[a].alloc
                /\ deleted' = deleted]_vars
    /\ [](\A k \in 1..Len(log) :
             /\ frame.op \in {"CreateNode", "DeleteNode"}
             /\ log[k].node = frame.node
             /\ log[k].in_nodes)
    /\ [][Len(log') > Len(log) /\ frame.op # "CreateNode"
             => /\ frame.op = "DeleteNode"
                /\ frame.i <= Len(m_cb_delete)
                /\ log'[Len(log')].m_func = m_cb_delete[frame.i].m_func]_vars
    /\ [](frame = Destroyed => log = <<>>)

\* the graph was destroyed with a node live: two nodes were created and
\* DeleteNode destroyed one of them
C25_Witness ==
    /\ frame = Destroyed
    /\ Len(returned) = 2
    /\ Cardinality(deleted) = 1
    /\ m_nodes = <<>>
    /\ \A a \in DOMAIN heap : ~heap[a].alloc

====
